---- MODULE Spec2Model ----
(***************************************************************************)
(* Model of optinet: hydraulic.py (Network, a session wrapper around the   *)
(* EPANET toolkit), objfun.py (index2diam, network_cost,                   *)
(* network_diameters), optinetd_deap.py (optimize_diameters: the DEAP     *)
(* eaSimple loop with selRoulette, cxTwoPoint and mutShuffleIndexes;       *)
(* optimize_diameters_execs: the multi-run driver) and plot.py             *)
(* (plot_convergence).                                                     *)
(*                                                                         *)
(* Numbers are integers: velocities are in cm/s (vmin = 0.25 m/s is 25),   *)
(* pressures, lengths and prices are whole units.                          *)
(***************************************************************************)
EXTENDS Integers, Sequences, FiniteSets, TLC

VARIABLES
    file_exists, \* os.path.isfile(path + inputfile)
    inp,         \* what the INP file describes: the engine's network
    prices,      \* the unit price table (pipe_price's result)
    en,          \* the EPANET toolkit's state (lib.epamodule, module-wide)
    net,         \* the Network object's fields
    err,         \* the exception that ended the program, "none" if none
    pc,          \* position of the caller
    sims,        \* number of Network.simulate calls made
    last,        \* what the latest Network/objfun call was given and returned
    pop,         \* eaSimple's population
    offspring,   \* eaSimple's offspring of the generation under way
    parents,     \* the selected individuals the offspring were cloned from
    touched,     \* per offspring: was mate or mutate applied to it
    hof,         \* tools.HallOfFame(1).items
    gen,         \* eaSimple's generation counter
    idx,         \* loop index inside varAnd
    logbook,     \* eaSimple's logbook rows
    evaluated,   \* every fitness value computed so far in the run
    generations, \* the `gen` keyword argument: eaSimple's ngen
    execs,       \* optimize_diameters_execs: the number of executions asked
    exec_i,      \* optimize_diameters_execs: executions completed (loop i)
    best,        \* optimize_diameters_execs: best, <<>> for None
    stats,       \* optimize_diameters_execs: the rows of the stats DataFrame
    chart        \* plot_convergence: the series it plots, g and best

vars == <<file_exists, inp, prices, en, net, err, pc, sims, last, pop,
          offspring, parents, touched, hof, gen, idx, logbook, evaluated,
          generations, execs, exec_i, best, stats, chart>>

drvvars == <<generations, execs, exec_i, best, stats, chart>>

gavars == <<pop, offspring, parents, touched, hof, gen, idx, logbook, evaluated>>

----------------------------------------------------------------------------
(* Bounds of the model *)

MaxNodes == 2
MaxLinks == 2
MaxPeriods == 2
MaxSims == 2
PopSize == 2
NGen == 2
MaxCatalog == 3
MaxExecs == 2
ExecsGen == 1

(* Program constants *)

None == -1              \* Python's None for self.nodes / self.links
EN_JUNCTION == 0
EN_RESERVOIR == 1
HMin == 30
HMax == 100
VMin == 25
VMax == 250
PenaltyStep == 1
TestVMin == 30          \* test_network_cost's vmin=0.3
SmallIntMax == 256      \* CPython keeps one object per int in -5..256

----------------------------------------------------------------------------
(* Helpers *)

\* s[lo] + ... + s[hi], added up by halves (the recursion stays shallow)
RECURSIVE RangeSum(_, _, _)
RangeSum(s, lo, hi) ==
    IF lo > hi THEN 0
    ELSE IF lo = hi THEN s[lo]
    ELSE LET mid == (lo + hi) \div 2
         IN  RangeSum(s, lo, mid) + RangeSum(s, mid + 1, hi)

SeqSum(s) == RangeSum(s, 1, Len(s))

Min(S) == CHOOSE x \in S : \A y \in S : x <= y

\* sorted(d.keys()): the ascending sequence of a finite set of integers
RECURSIVE sorted(_)
sorted(S) == IF S = {} THEN <<>> ELSE <<Min(S)>> \o sorted(S \ {Min(S)})

----------------------------------------------------------------------------
(* The price tables and the networks the model is run on *)

PriceTables == { (25 :> 2) @@ (51 :> 5) }

\* Hydraulic outcome of a pipe of a given diameter: the velocity in it and
\* the pressure at the node it feeds (boundary values included).
HydOutcomes ==
    { [v |-> VMin,     p |-> HMin],
      [v |-> VMax,     p |-> HMax],
      [v |-> VMin - 1, p |-> HMax],
      [v |-> VMax,     p |-> HMin - 1],
      [v |-> VMax + 1, p |-> HMax + 1] }

\* The smallest pipe behaves in any of these ways, the larger ones stay at
\* the low boundary.
HydTables(pipe_price) ==
    { [d \in DOMAIN pipe_price |->
         IF d = Min(DOMAIN pipe_price) THEN x ELSE [v |-> VMin, p |-> HMin]] :
      x \in HydOutcomes }

LinkCounts == (1..MaxLinks) \cup {SmallIntMax + 1}

InpFile(nn, nl, np, hyd) ==
    [nnodes  |-> nn,
     nlinks  |-> nl,
     periods |-> np,
     \* EPANET numbers the junctions first, reservoirs and tanks last
     types   |-> [n \in 1..nn |-> IF n = nn THEN EN_RESERVOIR ELSE EN_JUNCTION],
     length  |-> [i \in 1..nl |-> 1 + (i % 2)],
     diam0   |-> [i \in 1..nl |-> 0],
     hyd     |-> hyd]

----------------------------------------------------------------------------
(* lib.epamodule: the EPANET toolkit *)

EnClosed == [open |-> FALSE, openH |-> FALSE, diameter |-> <<>>, t |-> 0,
             noproj |-> 0]

ENopen(e) == [e EXCEPT !.open = TRUE, !.diameter = inp.diam0]

ENopenH(e) == [e EXCEPT !.openH = TRUE]

ENclose(e) == [e EXCEPT !.open = FALSE, !.openH = FALSE, !.diameter = <<>>,
                        !.t = 0]

\* A call on the toolkit with no project open is answered with an error
\* code, which epamodule raises as ENtoolkitError.
ENnoproject(e) == [e EXCEPT !.noproj = @ + 1]

ENsetlinkvalue(e, link, value) == [e EXCEPT !.diameter[link] = value]

ENinitH(e) == [e EXCEPT !.t = 0]

ENrunH(e) == [e EXCEPT !.t = @ + 1]

\* tstep: the time to the next hydraulic event, 0 at the end of the run
ENnextH(e) == IF e.t < inp.periods THEN 1 ELSE 0

HydOf(e, link) ==
    IF e.diameter[link] \in DOMAIN inp.hyd THEN inp.hyd[e.diameter[link]]
    ELSE [v |-> VMin, p |-> HMin]

\* the pipe feeding a node
LinkInto(node) == ((node - 1) % inp.nlinks) + 1

ENgetnodetype(e, node) == inp.types[node]

ENgetnodepressure(e, node) ==
    IF inp.types[node] # EN_JUNCTION THEN 0
    ELSE HydOf(e, LinkInto(node)).p - (e.t - 1)

ENgetlinkvelocity(e, link) == HydOf(e, link).v + (e.t - 1)

ENgetlinklength(e, link) == inp.length[link]

ENgetlinkdiameter(e, link) == e.diameter[link]

ENgetlinkflow(e, link) == link

----------------------------------------------------------------------------
(* hydraulic.py: class Network *)

NetworkNew ==
    [links |-> None, nodes |-> None,
     nodeids |-> <<>>, sources |-> <<>>, pressure |-> <<>>,
     velocity |-> <<>>, lengths |-> <<>>, diameters |-> <<>>,
     flowrate |-> <<>>]

check_file == file_exists

\* w is [net, en, err, sims]: the Network object, the toolkit, the exception
\* raised and the count of simulate calls; a method returns the w it leaves.
open_network(w) ==
    IF check_file
    THEN [w EXCEPT !.en = ENopenH(ENopen(w.en))]
    ELSE w   \* prints 'File ... does not exist' and returns True

close_network(w) == [w EXCEPT !.en = ENclose(w.en)]

initialize(w) ==
    IF ~w.en.open
    THEN [w EXCEPT !.en = ENnoproject(w.en), !.err = "ENtoolkitError"]
    ELSE [w EXCEPT !.net.nodes = inp.nnodes, !.net.links = inp.nlinks]

\* The outcomes of Python's `a is b` on two ints: identity. CPython shares
\* one object per small int; beyond that len() and ctypes' .value build two
\* objects (False), while an implementation comparing ints by value says True.
IsOutcomes(a, b) ==
    IF a # b THEN {FALSE}
    ELSE IF a <= SmallIntMax THEN {TRUE}
    ELSE {TRUE, FALSE}

\* `for i in range(self.links): ENsetlinkvalue(i+1, EN_DIAMETER, diameters[i])`
SetDiameterLoop(e, diameters, n) ==
    [e EXCEPT !.diameter =
        [i \in 1..Len(@) |-> IF i <= n THEN diameters[i] ELSE @[i]]]

change_diameters(w, diameters, same) ==
    IF ~same
    THEN [w EXCEPT !.err = "AssertionError"]
    ELSE [w EXCEPT !.en = SetDiameterLoop(w.en, diameters, w.net.links)]

\* `for i in range(self.nodes)`: one row per node appended to each buffer
NodeRows(self, e) ==
    [self EXCEPT
       !.nodeids  = @ \o [i \in 1..self.nodes |-> i],
       !.pressure = @ \o [i \in 1..self.nodes |-> ENgetnodepressure(e, i)],
       !.sources  = @ \o [i \in 1..self.nodes |-> ENgetnodetype(e, i)]]

\* `for i in range(self.links)`: one row per link appended to each buffer
LinkRows(self, e) ==
    [self EXCEPT
       !.velocity  = @ \o [i \in 1..self.links |-> ENgetlinkvelocity(e, i)],
       !.lengths   = @ \o [i \in 1..self.links |-> ENgetlinklength(e, i)],
       !.diameters = @ \o [i \in 1..self.links |-> ENgetlinkdiameter(e, i)],
       !.flowrate  = @ \o [i \in 1..self.links |-> ENgetlinkflow(e, i)]]

\* the `while True` loop: run a period, collect its rows, stop on tstep <= 0
RECURSIVE SimulateLoop(_)
SimulateLoop(w) ==
    LET e    == ENrunH(w.en)
        self == LinkRows(NodeRows(w.net, e), e)
        w2   == [w EXCEPT !.en = e, !.net = self]
    IN  IF ENnextH(e) <= 0 THEN w2 ELSE SimulateLoop(w2)

ResetBuffers(self) ==
    [self EXCEPT !.pressure = <<>>, !.velocity = <<>>, !.lengths = <<>>,
                 !.diameters = <<>>, !.sources = <<>>]

simulate(w) ==
    SimulateLoop([w EXCEPT !.en = ENinitH(w.en), !.net = ResetBuffers(w.net),
                           !.sims = @ + 1])

----------------------------------------------------------------------------
(* objfun.py *)

\* Python's keys[x] as a position of the 1-based sequence: x counts from the
\* front when 0 <= x < len, from the back when -len <= x < 0, and any other
\* x raises IndexError (position 0 here).
ListIndex(n, x) ==
    IF 0 <= x /\ x < n THEN x + 1
    ELSE IF -n <= x /\ x < 0 THEN n + x + 1
    ELSE 0

\* index2diam: [err, d]; d is the list returned, <<>> when the comprehension
\* raised IndexError
index2diam(diam_indexes, pipe_price) ==
    LET keys == sorted(DOMAIN pipe_price)
        n == Len(keys)
    IN  IF \E x \in 1..Len(diam_indexes) : ListIndex(n, diam_indexes[x]) = 0
        THEN [err |-> "IndexError", d |-> <<>>]
        ELSE [err |-> "none",
              d |-> [x \in 1..Len(diam_indexes) |->
                        keys[ListIndex(n, diam_indexes[x])]]]

\* network_cost's keyword arguments and their defaults
DefaultKwargs ==
    [hmin |-> HMin, hmax |-> HMax, vmin |-> VMin, vmax |-> VMax,
     penalty_step |-> PenaltyStep]

\* (mutant) the pressure loop without the `sources[i] == 0` test
PressurePenalty_AllNodes(network, kw) ==
    1 + SeqSum([i \in 1..network.nodes |->
                  IF network.pressure[i] < kw.hmin \/ network.pressure[i] > kw.hmax
                  THEN kw.penalty_step ELSE 0])

\* pH = 1; for i in range(network.nodes): ... pH += _penalty
PressurePenalty(network, kw) ==
    1 + SeqSum([i \in 1..network.nodes |->
                  IF network.sources[i] = 0
                     /\ (network.pressure[i] < kw.hmin
                         \/ network.pressure[i] > kw.hmax)
                  THEN kw.penalty_step ELSE 0])

\* (mutant) the velocity loop with the bounds themselves penalised
VelocityPenalty_Inclusive(network, kw) ==
    1 + SeqSum([i \in 1..network.links |->
                  IF network.velocity[i] <= kw.vmin \/ network.velocity[i] >= kw.vmax
                  THEN kw.penalty_step ELSE 0])

\* pV = 1; for i in range(network.links): ... pV += _penalty
VelocityPenalty(network, kw) ==
    1 + SeqSum([i \in 1..network.links |->
                  IF network.velocity[i] < kw.vmin \/ network.velocity[i] > kw.vmax
                  THEN kw.penalty_step ELSE 0])

\* cost = 0; for i in range(len(diameters)): cost += price * length * pV * pH
CostLoop(diameters, network, unit_prices, pV, pH) ==
    SeqSum([i \in 1..Len(diameters) |->
              unit_prices[diameters[i]] * network.lengths[i] * pV * pH])

\* the part of network_cost after the simulation
Objective(diameters, network, unit_prices, kw) ==
    LET pH == PressurePenalty(network, kw)
        pV == VelocityPenalty(network, kw)
    IN  CostLoop(diameters, network, unit_prices, pV, pH)

\* network_cost: [w, cost]; cost is None when an exception ended the call
network_cost(w, diameters, unit_prices, same, kw) ==
    LET w1 == change_diameters(w, diameters, same)
        w2 == simulate(w1)
    IN  IF w1.err # "none" THEN [w |-> w1, cost |-> None]
        ELSE [w |-> w2, cost |-> Objective(diameters, w2.net, unit_prices, kw)]

network_diameters(w, diam_indexes, pipe_price, same) ==
    LET diameters == index2diam(diam_indexes, pipe_price)
    IN  IF diameters.err # "none"
        THEN [w |-> [w EXCEPT !.err = diameters.err], cost |-> None]
        ELSE network_cost(w, diameters.d, pipe_price, same, DefaultKwargs)

----------------------------------------------------------------------------
(* A caller of Network and objfun: simulate_network, test_network_cost and   *)
(* the __main__ blocks open the network, initialize it, change diameters,  *)
(* simulate and evaluate, and close it.                                    *)

W == [net |-> net, en |-> en, err |-> err, sims |-> sims]

NoCall == [op |-> "none", arg |-> <<>>, ret |-> None, kw |-> DefaultKwargs]

\* A diameter list handed to change_diameters / network_cost: every list of
\* the right length over the catalog (one uniform list on the large network)
\* and uniform lists that are too short or too long.
\* the keyword arguments of a network_cost call: test_network_cost's
\* vmin=0.3, or none (the defaults)
CostKwargs == {[DefaultKwargs EXCEPT !.vmin = TestVMin], DefaultKwargs}

Uniform(n) == [i \in 1..n |-> Min(DOMAIN prices)]

DiamArgs ==
    (IF inp.nlinks <= MaxLinks THEN [1..inp.nlinks -> DOMAIN prices]
                               ELSE {Uniform(inp.nlinks)})
    \cup {Uniform(inp.nlinks - 1), Uniform(inp.nlinks + 1)}

InitCommon ==
    /\ en = EnClosed
    /\ net = NetworkNew
    /\ err = "none"
    /\ pc = "new"
    /\ sims = 0
    /\ last = NoCall
    /\ pop = <<>>
    /\ offspring = <<>>
    /\ parents = <<>>
    /\ touched = <<>>
    /\ hof = <<>>
    /\ gen = 0
    /\ idx = 0
    /\ logbook = <<>>
    /\ evaluated = {}
    /\ exec_i = 0
    /\ best = <<>>
    /\ stats = <<>>
    /\ chart = [g |-> <<>>, best |-> <<>>]

Init ==
    /\ execs = 0
    /\ generations = 0
    /\ file_exists \in BOOLEAN
    /\ prices \in PriceTables
    /\ \E nn \in 1..MaxNodes, nl \in LinkCounts, np \in 1..MaxPeriods :
         \E hyd \in HydTables(prices) :
            inp = InpFile(nn, nl, np, hyd)
    /\ InitCommon

Put(w) ==
    /\ net' = w.net
    /\ en' = w.en
    /\ err' = w.err
    /\ sims' = w.sims

\* `network = Network(path, infile); network.open_network()`: the first
\* object of a program, or a further one made while the earlier object's
\* session is still open (test_network_cost going on to simulate_network) or
\* after it was closed
OpenNetwork ==
    /\ pc \in {"new", "ready", "closed"} /\ err = "none"
    /\ Put(open_network([W EXCEPT !.net = NetworkNew]))
    /\ pc' = "opened"
    /\ last' = [NoCall EXCEPT !.op = "open_network"]
    /\ UNCHANGED <<drvvars, file_exists, inp, prices>>
    /\ UNCHANGED gavars

Initialize ==
    /\ pc = "opened" /\ err = "none"
    /\ Put(initialize(W))
    /\ pc' = "ready"
    /\ last' = [NoCall EXCEPT !.op = "initialize"]
    /\ UNCHANGED <<drvvars, file_exists, inp, prices>>
    /\ UNCHANGED gavars

ChangeDiameters ==
    /\ pc = "ready" /\ err = "none"
    /\ \E d \in DiamArgs : \E same \in IsOutcomes(Len(d), net.links) :
         /\ Put(change_diameters(W, d, same))
         /\ last' = [NoCall EXCEPT !.op = "change_diameters", !.arg = d]
    /\ UNCHANGED <<drvvars, file_exists, inp, prices, pc>>
    /\ UNCHANGED gavars

Simulate ==
    /\ pc = "ready" /\ err = "none"
    /\ sims < MaxSims
    /\ Put(simulate(W))
    /\ last' = [NoCall EXCEPT !.op = "simulate"]
    /\ UNCHANGED <<drvvars, file_exists, inp, prices, pc>>
    /\ UNCHANGED gavars

NetworkCost ==
    /\ pc = "ready" /\ err = "none"
    /\ sims < MaxSims
    /\ \E d \in DiamArgs : \E same \in IsOutcomes(Len(d), net.links) :
       \E kw \in CostKwargs :
         LET r == network_cost(W, d, prices, same, kw)
         IN  /\ Put(r.w)
             /\ last' = [NoCall EXCEPT !.op = "network_cost", !.arg = d,
                                       !.ret = r.cost, !.kw = kw]
    /\ UNCHANGED <<drvvars, file_exists, inp, prices, pc>>
    /\ UNCHANGED gavars

CloseNetwork ==
    /\ pc = "ready" /\ err = "none"
    /\ Put(close_network(W))
    /\ pc' = "closed"
    /\ last' = [NoCall EXCEPT !.op = "close_network"]
    /\ UNCHANGED <<drvvars, file_exists, inp, prices>>
    /\ UNCHANGED gavars

Next ==
    \/ OpenNetwork
    \/ Initialize
    \/ ChangeDiameters
    \/ Simulate
    \/ NetworkCost
    \/ CloseNetwork

Spec == Init /\ [][Next]_vars

----------------------------------------------------------------------------
(* Properties of Network and network_cost, checked under Spec *)

\* The engine's results in the first hydraulic period for the diameters it
\* now holds: the rows network_cost reads by position.
FirstPeriod == [en EXCEPT !.t = 1]

PressureViolators ==
    { n \in 1..inp.nnodes :
        /\ inp.types[n] = EN_JUNCTION
        /\ \/ ENgetnodepressure(FirstPeriod, n) < last.kw.hmin
           \/ ENgetnodepressure(FirstPeriod, n) > last.kw.hmax }

VelocityViolators ==
    { i \in 1..inp.nlinks :
        \/ ENgetlinkvelocity(FirstPeriod, i) < last.kw.vmin
        \/ ENgetlinkvelocity(FirstPeriod, i) > last.kw.vmax }

\* the material cost of an assignment: sum of unit price times length
RawCost(d) == SeqSum([i \in 1..Len(d) |-> prices[d[i]] * inp.length[i]])

MinUnitPrice == Min({ prices[d] : d \in DOMAIN prices })

MinBound == SeqSum([i \in 1..inp.nlinks |-> MinUnitPrice * inp.length[i]])

CostReturned == last.op = "network_cost" /\ err = "none"

\* the Network object at hand has been simulated
Simulated == net.nodeids # <<>> /\ err = "none"

\* C1: after any sequence of simulate calls every accumulation buffer of the
\* Network holds only the rows of the latest call: (periods of that call) x
\* (node count) rows per node buffer, x (link count) rows per link buffer.
C1_BuffersHoldLatestRun ==
    Simulated =>
        /\ Len(net.nodeids)   = inp.periods * net.nodes
        /\ Len(net.pressure)  = inp.periods * net.nodes
        /\ Len(net.sources)   = inp.periods * net.nodes
        /\ Len(net.velocity)  = inp.periods * net.links
        /\ Len(net.lengths)   = inp.periods * net.links
        /\ Len(net.diameters) = inp.periods * net.links
        /\ Len(net.flowrate)  = inp.periods * net.links

\* C2: network_cost returns (sum of unitPrice[diameter_i] * length_i) * pV * pH
\* with pH = 1 + penaltyStep * (number of non-source nodes whose pressure is
\* outside [hmin, hmax]) and pV = 1 + penaltyStep * (number of pipes whose
\* velocity is outside [vmin, vmax]); source nodes never count.
C2_CostFormula ==
    CostReturned =>
        last.ret = RawCost(last.arg)
                   * (1 + last.kw.penalty_step * Cardinality(VelocityViolators))
                   * (1 + last.kw.penalty_step * Cardinality(PressureViolators))

\* C2 witness: a cost returned for a multi-period run in which a junction
\* violates the pressure bounds, a pipe violates the velocity bounds, and the
\* source node's pressure lies outside the bounds too.
C2_Witness ==
    /\ CostReturned
    /\ inp.periods > 1
    /\ PressureViolators # {}
    /\ VelocityViolators # {}
    /\ \E n \in 1..inp.nnodes :
          /\ inp.types[n] # EN_JUNCTION
          /\ ENgetnodepressure(FirstPeriod, n) < last.kw.hmin

\* C3 as stated: cost >= sum of minUnitPrice * length_i, with equality if and
\* only if no pressure or velocity constraint is violated.
C3_MinPriceBoundIffFeasible ==
    CostReturned =>
        /\ last.ret >= MinBound
        /\ last.ret = MinBound
             <=> (PressureViolators = {} /\ VelocityViolators = {})

\* C3 amended: cost >= the assignment's own material cost >= sum of
\* minUnitPrice * length_i; cost equals the material cost iff no constraint is
\* violated, and equals the minimum-price bound iff moreover every link has a
\* diameter of minimum unit price.
C3_MaterialCostBound ==
    CostReturned =>
        /\ last.ret >= RawCost(last.arg)
        /\ RawCost(last.arg) >= MinBound
        /\ last.ret = RawCost(last.arg)
             <=> (PressureViolators = {} /\ VelocityViolators = {})
        /\ last.ret = MinBound
             <=> /\ PressureViolators = {} /\ VelocityViolators = {}
                 /\ \A i \in 1..Len(last.arg) :
                       prices[last.arg[i]] = MinUnitPrice

\* C3 witness: a feasible assignment (nothing violated, values on the bounds)
\* that uses a diameter dearer than the cheapest one.
C3_Witness ==
    /\ CostReturned
    /\ PressureViolators = {} /\ VelocityViolators = {}
    /\ \E i \in 1..Len(last.arg) : prices[last.arg[i]] > MinUnitPrice
    /\ last.ret > MinBound

\* C9: change_diameters with a list whose length differs from the link count
\* fails before any diameter is written (the engine's diameters are
\* unchanged); with a list of matching length it writes exactly that
\* diameter for each link 1..link count.
C9_SetDiametersContract ==
    [][ last'.op = "change_diameters" =>
          IF Len(last'.arg) # net.links
          THEN err' = "AssertionError" /\ en'.diameter = en.diameter
          ELSE err' = "none" /\ en'.diameter = last'.arg ]_vars

\* C10: open_network fails with a configuration error when the topology
\* file is absent, opens no solver session, and no later step runs against
\* the engine; when the file exists it opens the session and the hydraulic
\* solver.
C10_OpenFailsFast ==
    /\ (~file_exists /\ pc # "new") =>
          /\ err = "ConfigurationError"
          /\ ~en.open
          /\ en.noproj = 0
    /\ (file_exists /\ pc = "opened") => (en.open /\ en.openH)

\* What holds of open_network as coded: without the file no session is
\* opened, and the call returns normally.
OpenWithoutFileReturns ==
    (~file_exists /\ pc = "opened") => (err = "none" /\ ~en.open)

\* What holds of simulate as coded: the five buffers it resets hold the
\* latest run only.
ResetBuffersHoldLatestRun ==
    Simulated =>
        /\ Len(net.pressure)  = inp.periods * net.nodes
        /\ Len(net.sources)   = inp.periods * net.nodes
        /\ Len(net.velocity)  = inp.periods * net.links
        /\ Len(net.lengths)   = inp.periods * net.links
        /\ Len(net.diameters) = inp.periods * net.links

----------------------------------------------------------------------------
(* optinetd_deap.py: optimize_diameters. creator.Individual is a list with *)
(* a FitnessMin (weights = (-1.0,)); toolbox.evaluate is network_diameters *)
(* on the one Network of the run; mate is tools.cxTwoPoint, mutate is      *)
(* tools.mutShuffleIndexes, select is tools.selRoulette; the loop is       *)
(* algorithms.eaSimple with a tools.HallOfFame(1).                         *)

\* creator.Individual(genome): a new individual has no fitness values
Individual(genome) == [genome |-> genome, valid |-> FALSE, values |-> None]

\* del ind.fitness.values
DelFitness(ind) == [ind EXCEPT !.valid = FALSE, !.values = None]

\* FitnessMin: a.fitness > b.fitness compares the weighted values -cost
FitnessGT(a, b) == (0 - a.values) > (0 - b.values)

\* (mutant) random.randint(0, len(_unit_price)): the upper end is included
attr_diameter_Inclusive == 0..Cardinality(DOMAIN prices)

\* toolbox.attr_diameter: random.randint(0, len(_unit_price) - 1)
attr_diameter == 0..(Cardinality(DOMAIN prices) - 1)

\* sorted(individuals, key=attrgetter("fitness"), reverse=True), as indices:
\* best fitness first, equal fitness in the original order (stable sort)
RECURSIVE SortedByFitness(_, _)
SortedByFitness(individuals, left) ==
    IF left = {} THEN <<>>
    ELSE LET first == CHOOSE i \in left : \A j \in left \ {i} :
                         \/ FitnessGT(individuals[i], individuals[j])
                         \/ /\ ~FitnessGT(individuals[j], individuals[i])
                            /\ i < j
         IN  <<first>> \o SortedByFitness(individuals, left \ {first})

\* selRoulette's inner loop for one spin u: the index of the individual the
\* wheel stops at, 0 when the running sum never exceeds u
RECURSIVE RouletteSpin(_, _, _, _, _)
RouletteSpin(individuals, s_inds, u, j, sum_) ==
    IF j > Len(s_inds) THEN 0
    ELSE LET s == sum_ + individuals[s_inds[j]].values
         IN  IF s > u THEN s_inds[j]
             ELSE RouletteSpin(individuals, s_inds, u, j + 1, s)

\* u = random.random() * sum_fits: the spins of one selRoulette call
sum_fits(individuals) ==
    SeqSum([i \in 1..Len(individuals) |-> individuals[i].values])

Spins(individuals) == 0..(sum_fits(individuals) - 1)

selRouletteSpin(individuals, u) ==
    RouletteSpin(individuals,
                 SortedByFitness(individuals, 1..Len(individuals)), u, 1, 0)

\* the individuals one spin can return
Stops(individuals) ==
    { selRouletteSpin(individuals, u) : u \in Spins(individuals) }

\* (mutant) selRoulette spinning k - 1 times
selRoulette_Short(individuals, stops) ==
    LET hit == SelectSeq(stops, LAMBDA i : i # 0)
    IN  [i \in 1..(Len(hit) - 1) |-> individuals[hit[i]]]

\* selRoulette(individuals, k) given what each of the k spins returned
selRoulette(individuals, stops) ==
    LET hit == SelectSeq(stops, LAMBDA i : i # 0)
    IN  [i \in 1..Len(hit) |-> individuals[hit[i]]]

\* cxTwoPoint(ind1, ind2) with r1 = randint(1, size), r2 = randint(1, size-1)
cxTwoPoint(ind1, ind2, r1, r2) ==
    LET cxpoint1 == IF r2 >= r1 THEN r1 ELSE r2
        cxpoint2 == IF r2 >= r1 THEN r2 + 1 ELSE r1
        \* Python's slice [cxpoint1:cxpoint2] is positions cxpoint1+1..cxpoint2
        In(i) == cxpoint1 < i /\ i <= cxpoint2
    IN  <<[ind1 EXCEPT !.genome = [i \in 1..Len(@) |->
                          IF In(i) THEN ind2.genome[i] ELSE @[i]]],
          [ind2 EXCEPT !.genome = [i \in 1..Len(@) |->
                          IF In(i) THEN ind1.genome[i] ELSE @[i]]]>>

Swap(g, a, b) == [g EXCEPT ![a] = g[b], ![b] = g[a]]

\* mutShuffleIndexes: swaps[i+1] is -1 when random() >= indpb at gene i,
\* else the randint(0, size - 2) drawn for it
RECURSIVE ShuffleLoop(_, _, _)
ShuffleLoop(g, swaps, i) ==
    IF i >= Len(g) THEN g
    ELSE IF swaps[i + 1] < 0 THEN ShuffleLoop(g, swaps, i + 1)
    ELSE LET swap_indx == IF swaps[i + 1] >= i THEN swaps[i + 1] + 1
                          ELSE swaps[i + 1]
         IN  ShuffleLoop(Swap(g, i + 1, swap_indx + 1), swaps, i + 1)

mutShuffleIndexes(individual, swaps) ==
    [individual EXCEPT !.genome = ShuffleLoop(@, swaps, 0)]

\* (mutant) varAnd mating without deleting the fitness values
varAndMate_KeepFitness(offs, i, r1, r2) ==
    LET m == cxTwoPoint(offs[i], offs[i + 1], r1, r2)
    IN  [offs EXCEPT ![i] = m[1], ![i + 1] = m[2]]

\* varAnd, the mating of offspring[i-1] and offspring[i] (1-based: i, i+1)
\* and the deletion of their fitness values
varAndMate(offs, i, r1, r2) ==
    LET m == cxTwoPoint(offs[i], offs[i + 1], r1, r2)
    IN  [offs EXCEPT ![i] = DelFitness(m[1]), ![i + 1] = DelFitness(m[2])]

\* (mutant) varAnd deleting the fitness only of a mutant whose genome changed
varAndMutate_IfChanged(offs, i, swaps) ==
    LET m == mutShuffleIndexes(offs[i], swaps)
    IN  [offs EXCEPT ![i] = IF m.genome = offs[i].genome THEN m
                            ELSE DelFitness(m)]

\* varAnd, the mutation of offspring[i] and the deletion of its fitness
varAndMutate(offs, i, swaps) ==
    [offs EXCEPT ![i] = DelFitness(mutShuffleIndexes(offs[i], swaps))]

\* eaSimple: evaluate the individuals with an invalid fitness, in order, on
\* the run's network. r is [w, inds, nevals, best]: best is the least value
\* computed so far (None: none yet).
RECURSIVE EvaluateInvalid(_, _, _)
EvaluateInvalid(r, i, same) ==
    IF i > Len(r.inds) \/ r.w.err # "none" THEN r
    ELSE IF r.inds[i].valid THEN EvaluateInvalid(r, i + 1, same)
    ELSE LET c == network_diameters(r.w, r.inds[i].genome, prices, same)
         IN  EvaluateInvalid(
               [w      |-> c.w,
                inds   |-> IF c.w.err # "none" THEN r.inds
                           ELSE [r.inds EXCEPT ![i].valid = TRUE,
                                               ![i].values = c.cost],
                nevals |-> r.nevals + 1,
                best   |-> IF c.w.err # "none" THEN r.best
                           ELSE IF r.best = None \/ c.cost < r.best THEN c.cost
                           ELSE r.best],
               i + 1, same)

\* (mutant) a hall of fame that takes every individual of another fitness
RECURSIVE HofUpdate_AnyOther(_, _, _)
HofUpdate_AnyOther(items, population, i) ==
    IF i > Len(population) THEN items
    ELSE IF Len(items) = 0
         THEN HofUpdate_AnyOther(<<population[1]>>, population, i + 1)
    ELSE IF population[i].values # items[1].values
         THEN HofUpdate_AnyOther(<<population[i]>>, population, i + 1)
         ELSE HofUpdate_AnyOther(items, population, i + 1)

\* HallOfFame.update(population) of a hall of fame of maxsize 1
RECURSIVE HofUpdate(_, _, _)
HofUpdate(items, population, i) ==
    IF i > Len(population) THEN items
    ELSE IF Len(items) = 0 THEN HofUpdate(<<population[1]>>, population, i + 1)
    ELSE IF FitnessGT(population[i], items[Len(items)])
            /\ population[i].genome # items[1].genome
         THEN HofUpdate(<<population[i]>>, population, i + 1)
         ELSE HofUpdate(items, population, i + 1)

\* the square root of n rounded down, found by halving lo..hi
RECURSIVE ISqrtIn(_, _, _)
ISqrtIn(n, lo, hi) ==
    IF lo >= hi THEN lo
    ELSE LET mid == (lo + hi + 1) \div 2
         IN  IF mid * mid <= n THEN ISqrtIn(n, mid, hi)
             ELSE ISqrtIn(n, lo, mid - 1)

\* 46340 is the largest root whose square fits 32 bits
ISqrt(n) == ISqrtIn(n, 0, IF n < 46340 THEN n ELSE 46340)

\* stats.compile(population) and logbook.record(gen=, nevals=, ...); min and
\* max are whole units, avg (np.mean) and std (np.std, the population
\* standard deviation) are in hundredths of a unit, rounded down
Record(g, nevals, population) ==
    LET fits == { population[i].values : i \in 1..Len(population) }
        n == Len(population)
        sum_ == SeqSum([i \in 1..n |-> population[i].values])
        sq == SeqSum([i \in 1..n |-> population[i].values
                                     * population[i].values])
    IN  [gen |-> g, nevals |-> nevals,
         avg |-> (100 * sum_) \div n,
         std |-> ISqrt((10000 * (n * sq - sum_ * sum_)) \div (n * n)),
         min |-> Min(fits),
         max |-> CHOOSE x \in fits : \A y \in fits : y <= x]

netvars == <<en, net, err, sims>>

InitGA ==
    /\ execs = 0
    /\ generations = NGen
    /\ file_exists \in BOOLEAN
    /\ prices \in PriceTables
    \* a steady-state (single period) network of the largest size
    /\ \E hyd \in HydTables(prices) :
          inp = InpFile(MaxNodes, MaxLinks, 1, hyd)
    /\ InitCommon

\* network = Network(path, inpfile); network.open_network(); network.initialize()
GAOpen ==
    /\ pc = "new" /\ err = "none"
    /\ Put(initialize(open_network(W)))
    /\ pc' = "population"
    /\ UNCHANGED <<drvvars, file_exists, inp, prices, last>>
    /\ UNCHANGED gavars

\* pop = toolbox.population(n=_popsize); hof = tools.HallOfFame(1)
GAPopulation ==
    /\ pc = "population" /\ err = "none"
    /\ \E genomes \in [1..PopSize -> [1..net.links -> attr_diameter]] :
          pop' = [i \in 1..PopSize |-> Individual(genomes[i])]
    /\ hof' = <<>>
    /\ pc' = "evaluate0"
    /\ UNCHANGED <<drvvars, file_exists, inp, prices, last, offspring, parents, touched,
                   gen, idx, logbook, evaluated>>
    /\ UNCHANGED netvars

Seen(least) ==
    IF least = None THEN evaluated ELSE {Min(evaluated \cup {least})}

\* eaSimple before the loop: evaluate the invalid individuals
Ea0Evaluate ==
    /\ pc = "evaluate0" /\ err = "none"
    /\ \E same \in IsOutcomes(net.links, net.links) :
         LET r == EvaluateInvalid([w |-> W, inds |-> pop, nevals |-> 0,
                                   best |-> None], 1, same)
         IN  /\ Put(r.w)
             /\ pop' = r.inds
             /\ idx' = r.nevals
             /\ evaluated' = Seen(r.best)
    /\ pc' = "record0"
    /\ UNCHANGED <<drvvars, file_exists, inp, prices, last, offspring, parents, touched,
                   hof, gen, logbook>>

\* eaSimple before the loop: halloffame.update(population); logbook.record
Ea0Record ==
    /\ pc = "record0" /\ err = "none"
    /\ hof' = HofUpdate(hof, pop, 1)
    /\ logbook' = Append(logbook, Record(0, idx, pop))
    /\ gen' = 1
    /\ idx' = 0
    /\ pc' = IF 1 <= generations THEN "select" ELSE "done"
    /\ UNCHANGED <<drvvars, file_exists, inp, prices, last, pop, offspring, parents,
                   touched, evaluated>>
    /\ UNCHANGED netvars

\* offspring = toolbox.select(population, len(population)); varAnd clones them
EaSelect ==
    /\ pc = "select" /\ err = "none"
    /\ \E stops \in [1..Len(pop) -> Stops(pop)] :
          /\ offspring' = selRoulette(pop, stops)
          /\ parents' = selRoulette(pop, stops)
          /\ touched' = [i \in 1..Len(selRoulette(pop, stops)) |-> FALSE]
    /\ idx' = 1
    /\ pc' = "mate"
    /\ UNCHANGED <<drvvars, file_exists, inp, prices, last, pop, hof, gen, logbook,
                   evaluated>>
    /\ UNCHANGED netvars

\* varAnd: for i in range(1, len(offspring), 2): mate with probability cxpb
EaMate ==
    /\ pc = "mate" /\ err = "none"
    /\ IF idx + 1 > Len(offspring)
       THEN /\ pc' = "mutate"
            /\ idx' = 1
            /\ UNCHANGED <<offspring, touched>>
       ELSE /\ \/ UNCHANGED <<offspring, touched>>
               \/ \E r1 \in 1..Len(offspring[idx].genome),
                     r2 \in 1..(Len(offspring[idx].genome) - 1) :
                     /\ offspring' = varAndMate(offspring, idx, r1, r2)
                     /\ touched' = [touched EXCEPT ![idx] = TRUE,
                                                   ![idx + 1] = TRUE]
            /\ idx' = idx + 2
            /\ pc' = "mate"
    /\ UNCHANGED <<drvvars, file_exists, inp, prices, last, pop, parents, hof, gen,
                   logbook, evaluated>>
    /\ UNCHANGED netvars

\* varAnd: for i in range(len(offspring)): mutate with probability mutpb
EaMutate ==
    /\ pc = "mutate" /\ err = "none"
    /\ IF idx > Len(offspring)
       THEN /\ pc' = "evaluate"
            /\ idx' = 0
            /\ UNCHANGED <<offspring, touched>>
       ELSE /\ \/ UNCHANGED <<offspring, touched>>
               \/ \E swaps \in [1..Len(offspring[idx].genome) ->
                                 -1..(Len(offspring[idx].genome) - 2)] :
                     /\ offspring' = varAndMutate(offspring, idx, swaps)
                     /\ touched' = [touched EXCEPT ![idx] = TRUE]
            /\ idx' = idx + 1
            /\ pc' = "mutate"
    /\ UNCHANGED <<drvvars, file_exists, inp, prices, last, pop, parents, hof, gen,
                   logbook, evaluated>>
    /\ UNCHANGED netvars

\* eaSimple: evaluate the offspring with an invalid fitness
EaEvaluate ==
    /\ pc = "evaluate" /\ err = "none"
    /\ \E same \in IsOutcomes(net.links, net.links) :
         LET r == EvaluateInvalid([w |-> W, inds |-> offspring, nevals |-> 0,
                                   best |-> None], 1, same)
         IN  /\ Put(r.w)
             /\ offspring' = r.inds
             /\ idx' = r.nevals
             /\ evaluated' = Seen(r.best)
    /\ pc' = "replace"
    /\ UNCHANGED <<drvvars, file_exists, inp, prices, last, pop, parents, touched, hof,
                   gen, logbook>>

\* eaSimple: halloffame.update(offspring); population[:] = offspring;
\* logbook.record(gen, nevals); next generation
EaReplace ==
    /\ pc = "replace" /\ err = "none"
    /\ hof' = HofUpdate(hof, offspring, 1)
    /\ pop' = offspring
    /\ logbook' = Append(logbook, Record(gen, idx, offspring))
    /\ gen' = gen + 1
    /\ idx' = 0
    /\ pc' = IF gen + 1 <= generations THEN "select" ELSE "done"
    /\ UNCHANGED <<drvvars, file_exists, inp, prices, last, offspring, parents, touched,
                   evaluated>>
    /\ UNCHANGED netvars

NextGA ==
    \/ GAOpen
    \/ GAPopulation
    \/ Ea0Evaluate
    \/ Ea0Record
    \/ EaSelect
    \/ EaMate
    \/ EaMutate
    \/ EaEvaluate
    \/ EaReplace

SpecGA == InitGA /\ [][NextGA]_vars

----------------------------------------------------------------------------
(* Properties of the GA loop, checked under SpecGA *)

Indices(q) == 1..Len(q)

Touched == { i \in Indices(touched) : touched[i] }

\* the cost of a genome on the network as it is now
CurrentCost(genome) == network_diameters(W, genome, prices, TRUE).cost

\* the number of spins of the wheel that stop at individual i
Weight(individuals, i) ==
    Cardinality({ u \in Spins(individuals) : selRouletteSpin(individuals, u) = i })

\* C4 as stated: after variation the offspring marked unevaluated are
\* exactly those whose genome differs from the evaluated parent they were
\* cloned from; an offspring with its parent's genome keeps its fitness.
C4_InvalidIffGenomeChanged ==
    pc = "evaluate" =>
        \A i \in Indices(offspring) :
            (~offspring[i].valid) <=> (offspring[i].genome # parents[i].genome)

\* C4 amended: the offspring marked unevaluated and re-simulated are exactly
\* those to which crossover or mutation was applied, whether or not the
\* operator changed the genome; an offspring to which neither was applied
\* keeps its parent's genome and cached fitness, and one simulation is run
\* per offspring the operators were applied to.
C4_InvalidIffOperatorApplied ==
    /\ pc = "evaluate" =>
          \A i \in Indices(offspring) :
              /\ (~offspring[i].valid) <=> touched[i]
              /\ ~touched[i] => offspring[i] = parents[i]
    /\ pc = "replace" =>
          /\ \A i \in Indices(offspring) :
                ~touched[i] => offspring[i] = parents[i]
          /\ idx = Cardinality(Touched)
          /\ sims = SeqSum([k \in Indices(logbook) |-> logbook[k].nevals])
                    + Cardinality(Touched)

\* C4 witness: a generation evaluated in which one offspring was put through
\* an operator that left its genome as its parent's, and another offspring
\* was put through none.
C4_Witness ==
    /\ pc = "replace"
    /\ \E i \in Indices(offspring) :
          touched[i] /\ offspring[i].genome = parents[i].genome
    /\ \E j \in Indices(offspring) : ~touched[j]

\* C5: whenever the selection step or the replacement step runs, every
\* individual it reads has an evaluated fitness, and that fitness is the
\* cost of the individual's current genome.
C5_FitnessCurrentWhenRead ==
    /\ pc = "select" =>
          \A i \in Indices(pop) :
              pop[i].valid /\ pop[i].values = CurrentCost(pop[i].genome)
    /\ pc = "replace" =>
          \A i \in Indices(offspring) :
              /\ offspring[i].valid
              /\ offspring[i].values = CurrentCost(offspring[i].genome)

\* C5 witness: the replacement step about to read an offspring whose genome
\* and cost both differ from those of the parent it was cloned from.
C5_Witness ==
    /\ pc = "replace"
    /\ \E i \in Indices(offspring) :
          /\ offspring[i].genome # parents[i].genome
          /\ offspring[i].values # parents[i].values

\* C6: in the roulette selection step, of any two individuals the one with
\* strictly lower cost never has the smaller selection weight.
C6_LowerCostNoSmallerWeight ==
    pc = "select" =>
        \A i, j \in Indices(pop) :
            pop[i].values < pop[j].values
                => Weight(pop, i) >= Weight(pop, j)

\* C7: after initialisation and after every generation the population has
\* exactly popsize individuals, every genome has the network's link count as
\* its length, and the offspring fully replace the parents.
C7_PopulationShape ==
    /\ pc \in {"evaluate0", "record0", "select", "mate", "mutate",
               "evaluate", "replace", "done"} =>
          /\ Len(pop) = PopSize
          /\ \A i \in Indices(pop) : Len(pop[i].genome) = inp.nlinks
    /\ pc \in {"mate", "mutate", "evaluate", "replace"} =>
          /\ Len(offspring) = PopSize
          /\ \A i \in Indices(offspring) :
                Len(offspring[i].genome) = inp.nlinks
    /\ (pc \in {"select", "done"} /\ gen > 1) => pop = offspring

\* C7 witness: the run is over and its last generation put an offspring
\* through an operator that changed its genome.
C7_Witness ==
    /\ pc = "done"
    /\ gen = NGen + 1
    /\ \E i \in Indices(offspring) :
          touched[i] /\ offspring[i].genome # parents[i].genome

HofValue == hof[1].values

\* C8: the HallOfFame fitness is non-increasing from one generation to the
\* next, its entry is replaced only by an individual of the population being
\* installed that has strictly lower cost, and at every generation boundary
\* it equals the minimum cost of any individual evaluated so far.
C8_HallOfFame ==
    /\ [](pc \in {"select", "mate", "mutate", "evaluate", "done"} =>
            /\ Len(hof) = 1
            /\ hof[1].valid
            /\ evaluated = {HofValue})
    /\ [][ (hof # <<>> /\ hof' # hof) =>
            /\ hof'[1].values < hof[1].values
            /\ \E i \in Indices(offspring) : offspring[i] = hof'[1] ]_vars

\* C8 witness: the hall of fame holds a cost lower than the best of the
\* initial population while no individual of the population has that cost.
C8_Witness ==
    /\ pc \in {"select", "done"}
    /\ gen > 1
    /\ HofValue < logbook[1].min
    /\ \A i \in Indices(pop) : pop[i].values > HofValue

----------------------------------------------------------------------------
(* index2diam on any list of integers: the catalog and the index list are  *)
(* drawn at the start, the one step applies the function.                  *)

\* a unit price table of n diameters (25 mm apart, dearer when larger)
Catalog(n) == [d \in { 25 * k : k \in 1..n } |-> 2 * (d \div 25) + 1]

\* index lists of genome length over the catalog's range and one beyond it
\* at either end
IndexArgs(n) ==
    UNION { [1..len -> (-(n + 1))..n] : len \in 1..MaxLinks }

InitIndex ==
    /\ file_exists = FALSE
    /\ \E n \in 1..MaxCatalog :
         /\ prices = Catalog(n)
         /\ \E q \in IndexArgs(n) : last = [NoCall EXCEPT !.arg = q]
    /\ inp = InpFile(1, 1, 1, <<>>)
    /\ en = EnClosed
    /\ net = NetworkNew
    /\ err = "none"
    /\ pc = "new"
    /\ sims = 0
    /\ pop = <<>>
    /\ offspring = <<>>
    /\ parents = <<>>
    /\ touched = <<>>
    /\ hof = <<>>
    /\ gen = 0
    /\ idx = 0
    /\ logbook = <<>>
    /\ evaluated = {}
    /\ generations = 0
    /\ execs = 0
    /\ exec_i = 0
    /\ best = <<>>
    /\ stats = <<>>
    /\ chart = [g |-> <<>>, best |-> <<>>]

Index2Diam ==
    /\ pc = "new" /\ last.op = "none"
    /\ LET r == index2diam(last.arg, prices)
       IN  /\ last' = [last EXCEPT !.op = "index2diam", !.ret = r.d]
           /\ err' = r.err
    /\ pc' = "done"
    /\ UNCHANGED <<drvvars, file_exists, inp, prices, en, net, sims>>
    /\ UNCHANGED gavars

NextIndex == Index2Diam

SpecIndex == InitIndex /\ [][NextIndex]_vars

\* C11: index2diam fails with an index error, returning no list, whenever some
\* index lies outside [0, |catalog|), negative indices included; otherwise it
\* returns, position by position, the key at that position of the ascending
\* catalog keys.
C11_IndexOutOfRangeFails ==
    last.op = "index2diam" =>
        LET keys == sorted(DOMAIN prices)
            n == Len(keys)
        IN  IF \E x \in DOMAIN last.arg : ~(0 <= last.arg[x] /\ last.arg[x] < n)
            THEN err = "IndexError" /\ last.ret = <<>>
            ELSE /\ err = "none"
                 /\ last.ret = [x \in DOMAIN last.arg |-> keys[last.arg[x] + 1]]

\* What index2diam does: it fails only below -|catalog| or from |catalog| up;
\* an index -k with 1 <= k <= |catalog| resolves to the k-th largest key.
Index2DiamWrapsNegatives ==
    last.op = "index2diam" =>
        LET keys == sorted(DOMAIN prices)
            n == Len(keys)
        IN  IF \E x \in DOMAIN last.arg : ~(-n <= last.arg[x] /\ last.arg[x] < n)
            THEN err = "IndexError" /\ last.ret = <<>>
            ELSE /\ err = "none"
                 /\ last.ret = [x \in DOMAIN last.arg |->
                                  keys[((last.arg[x] + n) % n) + 1]]

----------------------------------------------------------------------------
(* plot.py: plot_convergence, and the CSV file it reads                    *)

COL_GEN == 0
COL_MIN == 6

\* the decimal digits of a whole number n >= 0
RECURSIVE Digits(_)
Digits(n) == IF n < 10 THEN <<n>> ELSE Digits(n \div 10) \o <<n % 10>>

RECURSIVE DigitsValue(_)
DigitsValue(s) ==
    IF s = <<>> THEN 0 ELSE 10 * DigitsValue(SubSeq(s, 1, Len(s) - 1)) + s[Len(s)]

\* A CSV cell: the digits before the point and those after it; an int is
\* written without a point (frac is <<>>), a float with one ("18.0").
FormatInt(n) == [int |-> Digits(n), frac |-> <<>>]
FormatFloat(x) == [int |-> Digits(x), frac |-> <<0>>]

\* a float held in hundredths: 1650 is written "16.5", 1800 "18.0"
FormatHundredths(x) ==
    [int  |-> Digits(x \div 100),
     frac |-> IF x % 10 = 0 THEN <<(x % 100) \div 10>>
              ELSE <<(x % 100) \div 10, x % 10>>]

\* int(cell) raises ValueError on a cell with a decimal point (None here);
\* float(cell) reads both
ParseInt(cell) == IF cell.frac = <<>> THEN DigitsValue(cell.int) ELSE None
ParseFloat(cell) == DigitsValue(cell.int)

CsvColumns == <<"gen", "nevals", "avg", "std", "min", "max", "bestFit">>

\* stats.to_csv(_stats, index=False): the header line, then one line per row
\* with the columns in the DataFrame's order
to_csv(rows) ==
    <<CsvColumns>> \o
    [k \in 1..Len(rows) |->
        <<FormatInt(rows[k].gen), FormatInt(rows[k].nevals),
          FormatHundredths(rows[k].avg), FormatHundredths(rows[k].std),
          FormatFloat(rows[k].min), FormatFloat(rows[k].max),
          FormatFloat(rows[k].bestFit)>>]

\* Python's s[ini:end] for 0 <= ini <= end
Slice(s, ini, end) ==
    LET lo == IF ini < Len(s) THEN ini ELSE Len(s)
        hi == IF end < Len(s) THEN end ELSE Len(s)
    IN  SubSeq(s, lo + 1, hi)

\* `for r in range(runs)`: lower best[i] to y[i] of each run's slice
RECURSIVE BestOfRuns(_, _, _, _, _)
BestOfRuns(bests, rmin, r, runs, gens) ==
    IF r >= runs THEN bests
    ELSE LET y == Slice(rmin, r * (gens + 1), (r + 1) * (gens + 1))
         IN  BestOfRuns([k \in 1..Len(bests) |->
                            IF k <= Len(y) /\ y[k] < bests[k] THEN y[k]
                            ELSE bests[k]],
                        rmin, r + 1, runs, gens)

\* plot_convergence: the series plotted, generation against best
plot_convergence(runs, gens, file_stats) ==
    LET rows == Tail(file_stats)     \* next(reader) skips the header
        gen_ == [k \in 1..Len(rows) |-> ParseInt(rows[k][COL_GEN + 1])]
        rmin == [k \in 1..Len(rows) |-> ParseFloat(rows[k][COL_MIN + 1])]
    IN  [g    |-> Slice(gen_, 0, gens + 1),
         best |-> BestOfRuns(Slice(rmin, 0, gens + 1), rmin, 0, runs, gens)]

----------------------------------------------------------------------------
(* optinetd_deap.py: optimize_diameters_execs                              *)

\* (mutant) the driver keeps the latest execution's best
TrackBest_Latest(tracked, b) == <<b[1]>>

\* `if best is None: best = b.items[0]
\*  elif b.items[0].fitness.values[0] < best.fitness.values[0]: best = ...`
TrackBest(tracked, b) ==
    IF tracked = <<>> THEN <<b[1]>>
    ELSE IF b[1].values < tracked[1].values THEN <<b[1]>>
    ELSE tracked

\* df = pd.DataFrame(r); df['bestFit'] = best.fitness.values[0]
Frame(r, bestFit) ==
    [k \in 1..Len(r) |->
        [gen |-> r[k].gen, nevals |-> r[k].nevals, avg |-> r[k].avg,
         std |-> r[k].std, min |-> r[k].min, max |-> r[k].max,
         bestFit |-> bestFit]]

\* the results of the smallest pipe are below vmin, the others are in range
ExecsHyd ==
    [d \in DOMAIN prices |->
        IF d = Min(DOMAIN prices) THEN [v |-> VMin - 1, p |-> HMax]
        ELSE [v |-> VMin, p |-> HMin]]

InitExecs ==
    /\ execs \in 1..MaxExecs
    /\ generations = ExecsGen
    /\ file_exists \in BOOLEAN
    /\ prices \in PriceTables
    /\ inp = InpFile(MaxNodes, MaxLinks, 1, ExecsHyd)
    /\ InitCommon

\* `for i in range(execs)`: the next pass calls optimize_diameters, which
\* makes a new Network, opens and initializes it; the locals of the call
\* start afresh
ExecOpen ==
    /\ pc = "new" /\ err = "none"
    /\ exec_i < execs
    /\ Put(initialize(open_network([W EXCEPT !.net = NetworkNew])))
    /\ pc' = "population"
    /\ pop' = <<>>
    /\ offspring' = <<>>
    /\ parents' = <<>>
    /\ touched' = <<>>
    /\ hof' = <<>>
    /\ gen' = 0
    /\ idx' = 0
    /\ logbook' = <<>>
    /\ evaluated' = {}
    /\ UNCHANGED <<drvvars, file_exists, inp, prices, last>>

\* optimize_diameters has returned hof, pop, log (no close_network); the rest
\* of the pass: best-of-best, df['bestFit'], stats.append(df)
ExecEnd ==
    /\ pc = "done" /\ err = "none"
    /\ exec_i < execs
    /\ best' = TrackBest(best, hof)
    /\ stats' = stats \o Frame(logbook, best'[1].values)
    /\ exec_i' = exec_i + 1
    /\ pc' = "new"
    /\ UNCHANGED <<file_exists, inp, prices, last, generations, execs, chart>>
    /\ UNCHANGED gavars
    /\ UNCHANGED netvars

\* after the loop: stats.to_csv, plot_convergence, return best
SavePlotReturn ==
    /\ pc = "new" /\ err = "none"
    /\ exec_i = execs
    /\ chart' = plot_convergence(execs, generations, to_csv(stats))
    /\ pc' = "returned"
    /\ UNCHANGED <<file_exists, inp, prices, last, generations, execs, exec_i,
                   best, stats>>
    /\ UNCHANGED gavars
    /\ UNCHANGED netvars

NextExecs ==
    \/ ExecOpen
    \/ GAPopulation
    \/ Ea0Evaluate
    \/ Ea0Record
    \/ EaSelect
    \/ EaMate
    \/ EaMutate
    \/ EaEvaluate
    \/ EaReplace
    \/ ExecEnd
    \/ SavePlotReturn

SpecExecs == InitExecs /\ [][NextExecs]_vars

----------------------------------------------------------------------------
(* Properties of the multi-run driver, checked under SpecExecs *)

\* the rows execution k contributed to stats
RowsOfExec(k) == ((k - 1) * (generations + 1) + 1)..(k * (generations + 1))

\* the least fitness execution k evaluated: its hall of fame's fitness
ExecBest(k) == Min({ stats[r].min : r \in RowsOfExec(k) })

BestUpTo(k) == Min({ ExecBest(j) : j \in 1..k })

\* C12: after each execution k the tracked best has the minimum hall of fame
\* fitness over executions 1..k and is replaced only on strict improvement,
\* every statistics row of execution k carries exactly that best-so-far
\* fitness, and the bestFit column never increases down the rows.
C12_BestOfBest ==
    /\ []((pc \in {"new", "returned"} /\ exec_i >= 1) =>
            /\ Len(stats) = exec_i * (generations + 1)
            /\ best[1].valid
            /\ best[1].values = BestUpTo(exec_i)
            /\ \A k \in 1..exec_i : \A r \in RowsOfExec(k) :
                  stats[r].bestFit = BestUpTo(k)
            /\ \A r \in 1..(Len(stats) - 1) :
                  stats[r + 1].bestFit <= stats[r].bestFit)
    /\ [][ (best # <<>> /\ best' # best) =>
              /\ hof'[1].values < best[1].values
              /\ best' = hof' ]_vars

\* C12 witness: two executions are done, the second improved on the first,
\* and within the second the first generation's minimum was not yet the best.
C12_Witness ==
    /\ pc = "new" /\ exec_i = 2
    /\ best[1].values < stats[1].bestFit
    /\ stats[generations + 2].min > stats[generations + 2].bestFit

\* C13: from statistics holding generations+1 rows per execution, plot_convergence
\* plots for each generation index the minimum over the executions of that
\* generation's "min" statistic, one value per generation index.
C13_EnvelopeOfMinColumn ==
    pc = "returned" =>
        /\ chart.g = [g \in 1..(generations + 1) |-> g - 1]
        /\ chart.best =
             [g \in 1..(generations + 1) |->
                Min({ stats[(k - 1) * (generations + 1) + g].min : k \in 1..execs })]

\* What plot_convergence plots: COL_MIN is the bestFit column, so every point
\* of the series is the best fitness of all the executions.
ChartIsBestFitColumn ==
    pc = "returned" =>
        /\ chart.g = [g \in 1..(generations + 1) |-> g - 1]
        /\ chart.best = [g \in 1..(generations + 1) |-> best[1].values]

\* C14: at most one solver session is open at a time: the session an
\* execution opened is closed before the next execution opens one, and none
\* is open when the driver returns.
C14_OneSessionAtATime ==
    pc \in {"new", "returned"} => ~en.open /\ ~en.openH

\* What the driver does: the session of the latest execution stays open.
SessionLeftOpen ==
    (pc \in {"new", "returned"} /\ exec_i >= 1) => en.open /\ en.openH

----------------------------------------------------------------------------
(* Property of the genomes, checked under SpecGA *)

\* C15: in every population of a run, as created and after any number of
\* selections, crossovers and shuffle mutations, every gene is an integer in
\* [0, |catalog|), so resolving a genome to diameters raises no index error
\* and yields catalog diameters only.
C15_GenesInCatalogRange ==
    \A q \in {pop, offspring, parents, hof} : \A k \in Indices(q) :
        /\ Len(q[k].genome) = net.links
        /\ \A j \in Indices(q[k].genome) :
              0 <= q[k].genome[j] /\ q[k].genome[j] < Cardinality(DOMAIN prices)
        /\ index2diam(q[k].genome, prices).err = "none"
        /\ \A j \in Indices(q[k].genome) :
              index2diam(q[k].genome, prices).d[j] \in DOMAIN prices

\* C15 witness: in a generation after the first, crossover and mutation have
\* given an offspring a genome that no individual of the population has.
C15_Witness ==
    /\ pc = "evaluate" /\ gen >= 2
    /\ \E k \in Indices(offspring) :
          /\ touched[k]
          /\ \A m \in Indices(pop) : pop[m].genome # offspring[k].genome
====
